---------------------------- MODULE Spec2Model ----------------------------
(* Model of chapters/chapter_4/4_2_mlp_surnames/Learn.ipynb:                *)
(* Vocabulary, SurnameVectorizer, SurnameDataset, generate_batches and the  *)
(* training loop with update_train_state.                                   *)
EXTENDS Integers, Sequences, FiniteSets, TLC

VARIABLES
    vocab,      \* a Vocabulary object
    op,         \* name of the last Vocabulary operation
    arg,        \* its argument
    ret,        \* its return value
    surname_df, \* the rows read from surname_csv
    dataset,    \* the SurnameDataset object, once constructed
    dstatus,    \* "unloaded", "ready", or "failed" when construction raised
    dop,        \* name of the last dataset / vectorizer operation
    darg,       \* its argument
    dret,       \* its return value
    passes,     \* number of generate_batches passes made so far
    pc,             \* position in the training cell
    args,           \* num_epochs, early_stopping_criteria
    num_batches,    \* get_num_batches of the train and the val split
    epoch_index,    \* the loop variable of the epoch loop
    batch_index,    \* batches consumed in the running phase
    running_loss,   \* running mean of the losses of the running phase
    train_state,    \* the dict of make_train_state
    params,         \* the classifier's parameters: optimizer steps applied
    model_file,     \* what train_state['model_filename'] holds on disk
    scheduler       \* the metrics fed to the plateau scheduler

vocabVars == <<vocab, op, arg, ret>>

dataVars == <<surname_df, dataset, dstatus, dop, darg, dret, passes>>

trainVars == <<pc, args, num_batches, epoch_index, batch_index, running_loss,
               train_state, params, model_file, scheduler>>

vars == <<vocab, op, arg, ret, surname_df, dataset, dstatus, dop, darg, dret,
          passes, pc, args, num_batches, epoch_index, batch_index,
          running_loss, train_state, params, model_file, scheduler>>

\* no file at train_state['model_filename'] yet
NoFile == [exists |-> FALSE, state_dict |-> 0, epoch |-> 0]

\* the training cell before it is run
IdleTrain ==
    /\ pc = "idle"
    /\ args = "none"
    /\ num_batches = "none"
    /\ epoch_index = 0
    /\ batch_index = 0
    /\ running_loss = 0
    /\ train_state = "none"
    /\ params = 0
    /\ model_file = NoFile
    /\ scheduler = << >>

\* the rest of the program while only the Vocabulary is exercised
IdleData ==
    /\ surname_df = << >>
    /\ dataset = "none"
    /\ dstatus = "unloaded"
    /\ dop = "init"
    /\ darg = ""
    /\ dret = 0
    /\ passes = 0

\* the free-standing Vocabulary while the dataset is exercised
IdleVocab ==
    /\ vocab = "none"
    /\ op = "init"
    /\ arg = ""
    /\ ret = 0

-----------------------------------------------------------------------------
(* Vocabulary                                                               *)

\* ordinary tokens offered to the Vocabulary
Tokens == {"a", "b"}

\* the unk_token arguments in use: the default and SurnameVectorizer's "@"
UnkTokens == {"<UNK>", "@"}

AllTokens == Tokens \cup UnkTokens

\* longest token list handed to add_many
MaxMany == 2

\* largest index handed to lookup_index
MaxIndex == 4

\* the key of the dict comprehension of __init__: the builtin function `id`,
\* an object that is equal to no integer index
IdKey == -1

EmptyDict == [k \in {} |-> 0]

Range(f) == {f[k] : k \in DOMAIN f}

\* the token a dict built by add_token lists last: the one with the largest index
LastItem(token_to_idx) ==
    CHOOSE t \in DOMAIN token_to_idx :
        \A u \in DOMAIN token_to_idx : token_to_idx[u] <= token_to_idx[t]

\* {id:token for token, idx in self._token_to_idx.items()}: every item writes
\* the one key `id`, so the last item's token is what stays
IdxToTokenComprehension(token_to_idx) ==
    IF DOMAIN token_to_idx = {} THEN EmptyDict
    ELSE (IdKey :> LastItem(token_to_idx))

\* a variant with the key the loop variable idx
IdxToTokenInverse(token_to_idx) ==
    [i \in Range(token_to_idx) |->
        CHOOSE t \in DOMAIN token_to_idx : token_to_idx[t] = i]

\* add_token without the lookup of an existing index
add_token_always_new(self, token) ==
    LET index == Cardinality(DOMAIN self.token_to_idx)
    IN  [self |-> [self EXCEPT
                    !.token_to_idx = (token :> index) @@ self.token_to_idx,
                    !.idx_to_token = (index :> token) @@ self.idx_to_token],
         index |-> index]

\* Vocabulary.add_token: the object after the call and the index returned
add_token(self, token) ==
    IF token \in DOMAIN self.token_to_idx
    THEN [self |-> self, index |-> self.token_to_idx[token]]
    ELSE LET index == Cardinality(DOMAIN self.token_to_idx)
         IN  [self |-> [self EXCEPT
                         !.token_to_idx = (token :> index) @@ self.token_to_idx,
                         !.idx_to_token = (index :> token) @@ self.idx_to_token],
              index |-> index]

\* Vocabulary.__init__
Vocabulary(token_to_idx, add_unk, unk_token) ==
    LET self0 == [token_to_idx |-> token_to_idx,
                  idx_to_token |-> IdxToTokenComprehension(token_to_idx),
                  add_unk      |-> add_unk,
                  unk_token    |-> unk_token,
                  unk_index    |-> -1]
        r == add_token(self0, unk_token)
    IN  IF add_unk THEN [r.self EXCEPT !.unk_index = r.index] ELSE self0

\* Vocabulary.to_serializable
to_serializable(self) ==
    [token_to_idx |-> self.token_to_idx,
     add_unk      |-> self.add_unk,
     unk_token    |-> self.unk_token]

\* Vocabulary.from_serializable: cls(**contents)
from_serializable(contents) ==
    Vocabulary(contents.token_to_idx, contents.add_unk, contents.unk_token)

RECURSIVE add_many(_, _)
\* Vocabulary.add_many: the object after the calls and the list of indices
add_many(self, tokens) ==
    IF tokens = << >> THEN [self |-> self, indices |-> << >>]
    ELSE LET r    == add_token(self, Head(tokens))
             rest == add_many(r.self, Tail(tokens))
         IN  [self |-> rest.self, indices |-> <<r.index>> \o rest.indices]

\* a result of a lookup: a value, or a raised KeyError
Returned(v) == [raised |-> FALSE, value |-> v]
KeyErrorInt == [raised |-> TRUE, value |-> 0]
KeyErrorStr == [raised |-> TRUE, value |-> ""]

\* lookup_token with the fallback test written as unk_index > 0
lookup_token_positive_unk(self, token) ==
    IF self.unk_index > 0
    THEN IF token \in DOMAIN self.token_to_idx
         THEN Returned(self.token_to_idx[token])
         ELSE Returned(self.unk_index)
    ELSE IF token \in DOMAIN self.token_to_idx
         THEN Returned(self.token_to_idx[token])
         ELSE KeyErrorInt

\* Vocabulary.lookup_token
lookup_token(self, token) ==
    IF self.unk_index >= 0
    THEN IF token \in DOMAIN self.token_to_idx
         THEN Returned(self.token_to_idx[token])
         ELSE Returned(self.unk_index)
    ELSE IF token \in DOMAIN self.token_to_idx
         THEN Returned(self.token_to_idx[token])
         ELSE KeyErrorInt

\* Vocabulary.lookup_index
lookup_index(self, index) ==
    IF index \notin DOMAIN self.idx_to_token
    THEN KeyErrorStr
    ELSE Returned(self.idx_to_token[index])

\* Vocabulary.__len__
len(self) == Cardinality(DOMAIN self.token_to_idx)

\* token lists of length at most n
SeqsUpTo(S, n) == UNION {[1..k -> S] : k \in 0..n}

-----------------------------------------------------------------------------
(* The Vocabulary as an object under its operations                         *)

InitVocab ==
    /\ \E add_unk \in BOOLEAN, unk_token \in UnkTokens :
            vocab = Vocabulary(EmptyDict, add_unk, unk_token)
    /\ op = "init"
    /\ arg = ""
    /\ ret = 0
    /\ IdleData
    /\ IdleTrain

AddToken ==
    \E token \in AllTokens :
        /\ vocab' = add_token(vocab, token).self
        /\ op' = "add_token"
        /\ arg' = token
        /\ ret' = add_token(vocab, token).index
        /\ UNCHANGED <<dataVars, trainVars>>

AddMany ==
    \E tokens \in SeqsUpTo(AllTokens, MaxMany) :
        /\ vocab' = add_many(vocab, tokens).self
        /\ op' = "add_many"
        /\ arg' = tokens
        /\ ret' = add_many(vocab, tokens).indices
        /\ UNCHANGED <<dataVars, trainVars>>

LookupToken ==
    \E token \in AllTokens :
        /\ op' = "lookup_token"
        /\ arg' = token
        /\ ret' = lookup_token(vocab, token)
        /\ UNCHANGED vocab
        /\ UNCHANGED <<dataVars, trainVars>>

LookupIndex ==
    \E index \in 0..MaxIndex :
        /\ op' = "lookup_index"
        /\ arg' = index
        /\ ret' = lookup_index(vocab, index)
        /\ UNCHANGED vocab
        /\ UNCHANGED <<dataVars, trainVars>>

\* save_vectorizer then load_vectorizer_only, for one Vocabulary: the object
\* is replaced by from_serializable of its own to_serializable record
Reload ==
    /\ vocab' = from_serializable(to_serializable(vocab))
    /\ op' = "from_serializable"
    /\ arg' = ""
    /\ ret' = 0
    /\ UNCHANGED <<dataVars, trainVars>>

NextVocab ==
    \/ AddToken
    \/ AddMany
    \/ LookupToken
    \/ LookupIndex
    \/ Reload

Spec == InitVocab /\ [][NextVocab]_vars

-----------------------------------------------------------------------------
(* SurnameVectorizer and SurnameDataset                                     *)

\* surnames of the corpus, as character sequences: "ab" and "b"
Surnames == {<<"a", "b">>, <<"b">>}

Nationalities == {"X", "Y"}

Splits == {"train", "val", "test"}

\* the rows a corpus is drawn from
Rows == [surname : Surnames, nationality : Nationalities, split : Splits]

\* most rows of a corpus
MaxRows == 3

\* strings handed to vectorize: "", "ab", "ba", "aab", "z", "az", "@"
Inputs == {<< >>, <<"a", "b">>, <<"b", "a">>, <<"a", "a", "b">>, <<"z">>,
           <<"a", "z">>, <<"@">>}

\* a raised exception, where the normal value is a vector or an object
Raised(what) == [raised |-> TRUE, value |-> what]

\* surname_df[surname_df.split == split]
FilterSplit(df, split) == SelectSeq(df, LAMBDA row : row.split = split)

RECURSIVE add_letters(_, _)
\* for letter in row.surname: surname_vocab.add_token(letter)
add_letters(surname_vocab, surname) ==
    IF surname = << >> THEN surname_vocab
    ELSE add_letters(add_token(surname_vocab, Head(surname)).self,
                     Tail(surname))

RECURSIVE from_dataframe_rows(_, _, _)
\* the loop of SurnameVectorizer.from_dataframe over the rows
from_dataframe_rows(df, surname_vocab, nationality_vocab) ==
    IF df = << >>
    THEN [surname_vocab |-> surname_vocab,
          nationality_vocab |-> nationality_vocab]
    ELSE from_dataframe_rows(
            Tail(df),
            add_letters(surname_vocab, Head(df).surname),
            add_token(nationality_vocab, Head(df).nationality).self)

\* SurnameVectorizer.from_dataframe
from_dataframe(df) ==
    from_dataframe_rows(df, Vocabulary(EmptyDict, TRUE, "@"),
                            Vocabulary(EmptyDict, FALSE, "<UNK>"))

\* SurnameVectorizer.to_serializable
vectorizer_to_serializable(self) ==
    [surname_vocab |-> to_serializable(self.surname_vocab),
     nationality_vocab |-> to_serializable(self.nationality_vocab)]

\* SurnameVectorizer.from_serializable
vectorizer_from_serializable(contents) ==
    [surname_vocab |-> from_serializable(contents.surname_vocab),
     nationality_vocab |-> from_serializable(contents.nationality_vocab)]

\* np.zeros(n)
Zeros(n) == [i \in 1..n |-> 0]

RECURSIVE one_hot_loop(_, _, _)
\* the loop of vectorize: one_hot[vocab.lookup_token(token)] = 1
one_hot_loop(v, one_hot, surname) ==
    IF surname = << >> THEN Returned(one_hot)
    ELSE LET r == lookup_token(v, Head(surname))
         IN  IF r.raised THEN Raised("KeyError")
             ELSE IF r.value \notin 0..(Len(one_hot) - 1)
             THEN Raised("IndexError")
             ELSE one_hot_loop(v, [one_hot EXCEPT ![r.value + 1] = 1],
                               Tail(surname))

RECURSIVE count_loop(_, _, _)
\* the loop of vectorize with the assignment written as += 1
count_loop(v, one_hot, surname) ==
    IF surname = << >> THEN Returned(one_hot)
    ELSE LET r == lookup_token(v, Head(surname))
         IN  IF r.raised THEN Raised("KeyError")
             ELSE IF r.value \notin 0..(Len(one_hot) - 1)
             THEN Raised("IndexError")
             ELSE count_loop(v, [one_hot EXCEPT ![r.value + 1] = @ + 1],
                             Tail(surname))

\* vectorize counting the occurrences of each character
vectorize_counting(self, surname) ==
    count_loop(self.surname_vocab, Zeros(len(self.surname_vocab)), surname)

\* SurnameVectorizer.vectorize
vectorize(self, surname) ==
    one_hot_loop(self.surname_vocab, Zeros(len(self.surname_vocab)), surname)

\* the row positions of df that hold nationality n
RowsOf(df, n) == {i \in 1..Len(df) : df[i].nationality = n}

\* surname_df.nationality.value_counts().to_dict(), as its list of items:
\* (label, count) by descending count, equal counts by first appearance
value_counts(df) ==
    LET labels   == {df[i].nationality : i \in 1..Len(df)}
        count(n) == Cardinality(RowsOf(df, n))
        first(n) == CHOOSE i \in RowsOf(df, n) : \A j \in RowsOf(df, n) : i <= j
        before(m, n) == \/ count(m) > count(n)
                        \/ count(m) = count(n) /\ first(m) < first(n)
        rank(n)  == Cardinality({m \in labels : before(m, n)}) + 1
    IN  [k \in 1..Cardinality(labels) |->
            LET n == CHOOSE m \in labels : rank(m) = k IN <<n, count(n)>>]

\* sort_key placing a label the Vocabulary does not hold first
sort_key_lenient(vectorizer, item) ==
    IF item[1] \in DOMAIN vectorizer.nationality_vocab.token_to_idx
    THEN lookup_token(vectorizer.nationality_vocab, item[1])
    ELSE Returned(0)

\* sort_key of SurnameDataset.__init__
sort_key(vectorizer, item) == lookup_token(vectorizer.nationality_vocab, item[1])

\* the counts left in the order of value_counts
sorted_counts_unsorted(vectorizer, items) == Returned(items)

\* sorted(class_counts.items(), key=sort_key): raises when a key does; a stable
\* sort, so items with equal keys keep their order
sorted_counts(vectorizer, items) ==
    IF \E k \in 1..Len(items) : sort_key(vectorizer, items[k]).raised
    THEN Raised("KeyError")
    ELSE LET key(k)  == sort_key(vectorizer, items[k]).value
             pos(k)  == Cardinality({j \in 1..Len(items) :
                            \/ key(j) < key(k)
                            \/ key(j) = key(k) /\ j < k}) + 1
         IN  Returned([p \in 1..Len(items) |->
                        items[CHOOSE k \in 1..Len(items) : pos(k) = p]])

\* 1.0 / x for a count x
Reciprocal(x) == [num |-> 1, den |-> x]

\* SurnameDataset.__init__: the object, or the exception it raises
SurnameDataset(df, vectorizer) ==
    LET lookup_dict == [split \in Splits |->
                            [df   |-> FilterSplit(df, split),
                             size |-> Len(FilterSplit(df, split))]]
        sorted == sorted_counts(vectorizer, value_counts(df))
    IN  IF sorted.raised THEN sorted
        ELSE Returned(
                [vectorizer   |-> vectorizer,
                 lookup_dict  |-> lookup_dict,
                 target_split |-> "train",
                 target_df    |-> lookup_dict["train"].df,
                 target_size  |-> lookup_dict["train"].size,
                 class_weights |->
                    [k \in 1..Len(sorted.value) |->
                        Reciprocal(sorted.value[k][2])]])

\* SurnameDataset.load_dataset_and_make_vectorizer
load_dataset_and_make_vectorizer(df) ==
    SurnameDataset(df, from_dataframe(FilterSplit(df, "train")))

\* save_vectorizer, then load_dataset_and_load_vectorizer of the same csv
load_dataset_and_load_vectorizer(df, saved) ==
    SurnameDataset(df, vectorizer_from_serializable(saved))

InitData ==
    /\ surname_df \in SeqsUpTo(Rows, MaxRows)
    /\ dataset = "none"
    /\ dstatus = "unloaded"
    /\ dop = "init"
    /\ darg = ""
    /\ dret = 0
    /\ passes = 0
    /\ IdleVocab
    /\ IdleTrain

\* cell "initializations", reload_from_files = False
LoadDatasetAndMakeVectorizer ==
    /\ dstatus = "unloaded"
    /\ LET r == load_dataset_and_make_vectorizer(surname_df)
       IN  /\ dstatus' = IF r.raised THEN "failed" ELSE "ready"
           /\ dataset' = IF r.raised THEN "none" ELSE r.value
           /\ dret' = IF r.raised THEN r.value ELSE "ok"
    /\ dop' = "load_dataset_and_make_vectorizer"
    /\ darg' = ""
    /\ UNCHANGED <<surname_df, passes>>
    /\ UNCHANGED <<vocabVars, trainVars>>

\* cell "initializations", reload_from_files = True, with the vectorizer file
\* that save_vectorizer wrote for this dataset
LoadDatasetAndLoadVectorizer ==
    /\ dstatus = "ready"
    /\ LET saved == vectorizer_to_serializable(dataset.vectorizer)
           r == load_dataset_and_load_vectorizer(surname_df, saved)
       IN  /\ dstatus' = IF r.raised THEN "failed" ELSE "ready"
           /\ dataset' = IF r.raised THEN "none" ELSE r.value
           /\ dret' = IF r.raised THEN r.value ELSE "ok"
    /\ dop' = "load_dataset_and_load_vectorizer"
    /\ darg' = ""
    /\ UNCHANGED <<surname_df, passes>>
    /\ UNCHANGED <<vocabVars, trainVars>>

Vectorize ==
    /\ dstatus = "ready"
    /\ \E surname \in Inputs :
        /\ dop' = "vectorize"
        /\ darg' = surname
        /\ dret' = vectorize(dataset.vectorizer, surname)
    /\ UNCHANGED <<surname_df, dataset, dstatus, passes>>
    /\ UNCHANGED <<vocabVars, trainVars>>

NextData ==
    \/ LoadDatasetAndMakeVectorizer
    \/ LoadDatasetAndLoadVectorizer
    \/ Vectorize

SpecData == InitData /\ [][NextData]_vars

-----------------------------------------------------------------------------
(* set_split, __len__ and generate_batches                                  *)

\* the rows of the corpora the batching is exercised on: they differ by split
BatchRows == [surname : {<<"a", "b">>}, nationality : {"X"}, split : Splits]

\* most rows of such a corpus
MaxBatchRows == 4

\* largest batch_size
MaxBatchSize == 2

\* most generate_batches passes counted
MaxPasses == 2

\* the split names handed to set_split: the three known ones and a wrong one
SplitNames == Splits \cup {"dev"}

\* set_split falling back to the train split for an unknown name
set_split_default_train(self, split) ==
    LET name == IF split \in DOMAIN self.lookup_dict THEN split ELSE "train"
    IN  [raised |-> FALSE,
         self |-> [self EXCEPT !.target_split = name,
                               !.target_df = self.lookup_dict[name].df,
                               !.target_size = self.lookup_dict[name].size]]

\* SurnameDataset.set_split: _target_split is assigned before the lookup in
\* _lookup_dict, which raises KeyError for an unknown name
set_split(self, split) ==
    IF split \in DOMAIN self.lookup_dict
    THEN [raised |-> FALSE,
          self |-> [self EXCEPT !.target_split = split,
                                !.target_df = self.lookup_dict[split].df,
                                !.target_size = self.lookup_dict[split].size]]
    ELSE [raised |-> TRUE, self |-> [self EXCEPT !.target_split = split]]

\* SurnameDataset.__len__
dataset_len(self) == self.target_size

\* get_num_batches rounding the quotient up
get_num_batches_ceil(self, batch_size) ==
    (dataset_len(self) + batch_size - 1) \div batch_size

\* SurnameDataset.get_num_batches
get_num_batches(self, batch_size) == dataset_len(self) \div batch_size

\* the orders in which DataLoader's sampler yields the indices 0..n-1:
\* RandomSampler any permutation, SequentialSampler the identity
SamplerOrders(n, shuffle) ==
    IF shuffle
    THEN {[i \in 1..n |-> f[i] - 1] : f \in Permutations(1..n)}
    ELSE {[i \in 1..n |-> i - 1]}

\* whether building the DataLoader raises: RandomSampler rejects an empty
\* dataset with ValueError in some releases of the library and accepts it in
\* others
SamplerRaises(n, shuffle) == IF shuffle /\ n = 0 THEN BOOLEAN ELSE {FALSE}

\* DataLoader's BatchSampler with the trailing incomplete batch kept
generate_batches_keep_last(order, batch_size, drop_last) ==
    LET n    == Len(order)
        full == n \div batch_size
        last == IF n % batch_size # 0 THEN 1 ELSE 0
    IN  [k \in 1..(full + last) |->
            SubSeq(order, (k - 1) * batch_size + 1,
                   IF k * batch_size <= n THEN k * batch_size ELSE n)]

\* generate_batches: the batches (lists of row indices of the active split) one
\* pass yields, for the order the sampler drew
generate_batches(order, batch_size, drop_last) ==
    LET n    == Len(order)
        full == n \div batch_size
        last == IF ~drop_last /\ n % batch_size # 0 THEN 1 ELSE 0
    IN  [k \in 1..(full + last) |->
            SubSeq(order, (k - 1) * batch_size + 1,
                   IF k * batch_size <= n THEN k * batch_size ELSE n)]

InitBatch ==
    /\ surname_df \in SeqsUpTo(BatchRows, MaxBatchRows)
    /\ dataset = "none"
    /\ dstatus = "unloaded"
    /\ dop = "init"
    /\ darg = ""
    /\ dret = 0
    /\ passes = 0
    /\ IdleVocab
    /\ IdleTrain

SetSplit ==
    /\ dstatus = "ready"
    /\ \E split \in SplitNames :
        /\ dataset' = set_split(dataset, split).self
        /\ dop' = "set_split"
        /\ darg' = split
        /\ dret' = IF set_split(dataset, split).raised THEN "KeyError" ELSE "ok"
    /\ UNCHANGED <<surname_df, dstatus, passes>>
    /\ UNCHANGED <<vocabVars, trainVars>>

\* one pass over generate_batches(dataset, batch_size), consumed to its end
\* (or ended by the sampler's ValueError before any batch); every caller leaves
\* drop_last at its default True
GenerateBatches ==
    /\ dstatus = "ready"
    /\ \E batch_size \in 1..MaxBatchSize, shuffle \in BOOLEAN :
        \E order \in SamplerOrders(dataset_len(dataset), shuffle),
           raised \in SamplerRaises(dataset_len(dataset), shuffle) :
            /\ dop' = "generate_batches"
            /\ darg' = [batch_size |-> batch_size, shuffle |-> shuffle]
            /\ dret' = [raised |-> raised,
                        value |-> generate_batches(order, batch_size, TRUE)]
    /\ passes' = IF passes < MaxPasses THEN passes + 1 ELSE passes
    /\ UNCHANGED <<surname_df, dataset, dstatus>>
    /\ UNCHANGED <<vocabVars, trainVars>>

\* dataset.get_num_batches(batch_size), as the progress bars call it
GetNumBatches ==
    /\ dstatus = "ready"
    /\ \E batch_size \in 1..MaxBatchSize :
        /\ dop' = "get_num_batches"
        /\ darg' = batch_size
        /\ dret' = get_num_batches(dataset, batch_size)
    /\ UNCHANGED <<surname_df, dataset, dstatus, passes>>
    /\ UNCHANGED <<vocabVars, trainVars>>

NextBatch ==
    \/ LoadDatasetAndMakeVectorizer
    \/ SetSplit
    \/ GenerateBatches
    \/ GetNumBatches

SpecBatch == InitBatch /\ [][NextBatch]_vars

-----------------------------------------------------------------------------
(* set_split, __len__ and __getitem__ on corpora of distinguishable rows    *)

\* the rows of the corpora the split views are exercised on: "ab" of
\* nationality X and "b" of nationality Y, in any split
SplitRows == {row \in Rows : row.surname = <<"a", "b">> <=> row.nationality = "X"}

\* most rows of such a corpus
MaxSplitRows == 3

\* SurnameDataset.__getitem__ for an index >= 0: iloc raises IndexError past
\* the end of the active view
getitem(self, index) ==
    IF index \notin 0..(Len(self.target_df) - 1) THEN Raised("IndexError")
    ELSE LET row == self.target_df[index + 1]
             surname_vector == vectorize(self.vectorizer, row.surname)
             nationality_index ==
                lookup_token(self.vectorizer.nationality_vocab, row.nationality)
         IN  IF surname_vector.raised THEN surname_vector
             ELSE IF nationality_index.raised THEN Raised("KeyError")
             ELSE Returned([x_surname |-> surname_vector.value,
                            y_nationality |-> nationality_index.value])

InitSplit ==
    /\ surname_df \in SeqsUpTo(SplitRows, MaxSplitRows)
    /\ dataset = "none"
    /\ dstatus = "unloaded"
    /\ dop = "init"
    /\ darg = ""
    /\ dret = 0
    /\ passes = 0
    /\ IdleVocab
    /\ IdleTrain

\* len(dataset)
DatasetLen ==
    /\ dstatus = "ready"
    /\ dop' = "len"
    /\ darg' = ""
    /\ dret' = dataset_len(dataset)
    /\ UNCHANGED <<surname_df, dataset, dstatus, passes>>
    /\ UNCHANGED <<vocabVars, trainVars>>

\* dataset[index]
GetItem ==
    /\ dstatus = "ready"
    /\ \E index \in 0..MaxIndex :
        /\ dop' = "getitem"
        /\ darg' = index
        /\ dret' = getitem(dataset, index)
    /\ UNCHANGED <<surname_df, dataset, dstatus, passes>>
    /\ UNCHANGED <<vocabVars, trainVars>>

NextSplit ==
    \/ LoadDatasetAndMakeVectorizer
    \/ SetSplit
    \/ DatasetLen
    \/ GetItem

SpecSplit == InitSplit /\ [][NextSplit]_vars

-----------------------------------------------------------------------------
(* The training loop                                                        *)

\* 'early_stopping_best_val': 1e8
BestValInit == 100000000

\* a loss that is not a number: every comparison with it is false
NaN == -1

\* largest args.num_epochs
NumEpochs == 4

\* largest args.early_stopping_criteria
MaxPatience == 2

\* most batches of a split
MaxBatches == 2

\* the running validation losses after at least one batch: two ordinary
\* values, one as large as the initial best, and NaN
Losses == {1, 2, BestValInit, NaN}

\* running_loss and running_acc before any batch
RunningInit == 0

\* the running training loss and the running accuracies after a batch: their
\* values play no part in the control of the loop
TrainLoss == 1
Accuracy == 50

\* a >= b on floats
FloatGE(a, b) == a # NaN /\ b # NaN /\ a >= b

\* a < b on floats
FloatLT(a, b) == a # NaN /\ b # NaN /\ a < b

\* make_train_state (learning_rate, test_loss, test_acc and model_filename
\* are not read by the loop)
make_train_state ==
    [stop_early |-> FALSE,
     early_stopping_step |-> 0,
     early_stopping_best_val |-> BestValInit,
     epoch_index |-> 0,
     train_loss |-> << >>,
     train_acc |-> << >>,
     val_loss |-> << >>,
     val_acc |-> << >>]

\* torch.save(model.state_dict(), train_state['model_filename']): the file holds
\* the parameters; epoch records the epoch_index at which it was written
torch_save(model, ts) ==
    [exists |-> TRUE, state_dict |-> model, epoch |-> ts.epoch_index]

\* update_train_state with the stop test written as a strict comparison
update_train_state_strict(a, model, ts, file) ==
    IF ts.epoch_index = 0
    THEN [raised |-> FALSE,
          train_state |-> [ts EXCEPT !.stop_early = FALSE],
          model_file |-> torch_save(model, ts)]
    ELSE IF Len(ts.val_loss) < 2
    THEN [raised |-> TRUE, train_state |-> ts, model_file |-> file]
    ELSE LET loss_t == ts.val_loss[Len(ts.val_loss)]
             worse  == FloatGE(loss_t, ts.early_stopping_best_val)
             step   == IF worse THEN ts.early_stopping_step + 1 ELSE 0
         IN  [raised |-> FALSE,
              train_state |->
                [ts EXCEPT !.early_stopping_step = step,
                           !.stop_early = (step > a.early_stopping_criteria)],
              model_file |->
                IF ~worse /\ FloatLT(loss_t, ts.early_stopping_best_val)
                THEN torch_save(model, ts)
                ELSE file]

\* update_train_state: whether it raised, the train_state returned and the
\* file left on disk; loss_tm1, loss_t = val_loss[-2:] raises ValueError on a
\* history of fewer than two losses
update_train_state(a, model, ts, file) ==
    IF ts.epoch_index = 0
    THEN [raised |-> FALSE,
          train_state |-> [ts EXCEPT !.stop_early = FALSE],
          model_file |-> torch_save(model, ts)]
    ELSE IF ts.epoch_index >= 1
    THEN IF Len(ts.val_loss) < 2
         THEN [raised |-> TRUE, train_state |-> ts, model_file |-> file]
         ELSE
         LET loss_t == ts.val_loss[Len(ts.val_loss)]
             worse  == FloatGE(loss_t, ts.early_stopping_best_val)
             step   == IF worse THEN ts.early_stopping_step + 1 ELSE 0
         IN  [raised |-> FALSE,
              train_state |->
                [ts EXCEPT !.early_stopping_step = step,
                           !.stop_early = (step >= a.early_stopping_criteria)],
              model_file |->
                IF ~worse /\ FloatLT(loss_t, ts.early_stopping_best_val)
                THEN torch_save(model, ts)
                ELSE file]
    ELSE [raised |-> FALSE, train_state |-> ts, model_file |-> file]

InitTrain ==
    /\ pc = "for"
    /\ args \in [num_epochs : 1..NumEpochs,
                 early_stopping_criteria : 1..MaxPatience]
    /\ num_batches \in [train : 0..MaxBatches, val : 0..MaxBatches]
    /\ epoch_index = 0
    /\ batch_index = 0
    /\ running_loss = RunningInit
    /\ train_state = make_train_state
    /\ params = 0
    /\ model_file = NoFile
    /\ scheduler = << >>
    /\ IdleVocab
    /\ IdleData

\* for epoch_index in range(args.num_epochs): one more epoch; the set-up of
\* the training phase
EpochBegin ==
    /\ pc = "for"
    /\ epoch_index < args.num_epochs
    /\ train_state' = [train_state EXCEPT !.epoch_index = epoch_index]
    /\ batch_index' = 0
    /\ running_loss' = RunningInit
    /\ pc' = "train"
    /\ UNCHANGED <<args, num_batches, epoch_index, params, model_file,
                   scheduler>>
    /\ UNCHANGED <<vocabVars, dataVars>>

\* the range is exhausted: the loop ends without a break
LoopExhausted ==
    /\ pc = "for"
    /\ epoch_index >= args.num_epochs
    /\ pc' = "completed"
    /\ UNCHANGED <<args, num_batches, epoch_index, batch_index, running_loss,
                   train_state, params, model_file, scheduler>>
    /\ UNCHANGED <<vocabVars, dataVars>>

\* one training batch: loss, backward, optimizer.step()
TrainBatch ==
    /\ pc = "train"
    /\ batch_index < num_batches.train
    /\ params' = params + 1
    /\ running_loss' = TrainLoss
    /\ batch_index' = batch_index + 1
    /\ UNCHANGED <<pc, args, num_batches, epoch_index, train_state,
                   model_file, scheduler>>
    /\ UNCHANGED <<vocabVars, dataVars>>

\* the training batches are consumed: the appends, and the set-up of the
\* validation phase
TrainEnd ==
    /\ pc = "train"
    /\ batch_index = num_batches.train
    /\ train_state' =
        [train_state EXCEPT
            !.train_loss = Append(@, running_loss),
            !.train_acc = Append(@, IF batch_index = 0 THEN RunningInit
                                    ELSE Accuracy)]
    /\ batch_index' = 0
    /\ running_loss' = RunningInit
    /\ pc' = "val"
    /\ UNCHANGED <<args, num_batches, epoch_index, params, model_file,
                   scheduler>>
    /\ UNCHANGED <<vocabVars, dataVars>>

\* one validation batch: no parameter update
ValBatch ==
    /\ pc = "val"
    /\ batch_index < num_batches.val
    /\ running_loss' \in Losses
    /\ batch_index' = batch_index + 1
    /\ UNCHANGED <<pc, args, num_batches, epoch_index, train_state, params,
                   model_file, scheduler>>
    /\ UNCHANGED <<vocabVars, dataVars>>

\* the validation batches are consumed: the appends
ValEnd ==
    /\ pc = "val"
    /\ batch_index = num_batches.val
    /\ train_state' =
        [train_state EXCEPT
            !.val_loss = Append(@, running_loss),
            !.val_acc = Append(@, IF batch_index = 0 THEN RunningInit
                                  ELSE Accuracy)]
    /\ pc' = "update"
    /\ UNCHANGED <<args, num_batches, epoch_index, batch_index, running_loss,
                   params, model_file, scheduler>>
    /\ UNCHANGED <<vocabVars, dataVars>>

\* train_state = update_train_state(args, classifier, train_state)
UpdateTrainState ==
    /\ pc = "update"
    /\ LET r == update_train_state(args, params, train_state, model_file)
       IN  /\ train_state' = r.train_state
           /\ model_file' = r.model_file
           /\ pc' = IF r.raised THEN "error" ELSE "scheduler"
    /\ UNCHANGED <<args, num_batches, epoch_index, batch_index, running_loss,
                   params, scheduler>>
    /\ UNCHANGED <<vocabVars, dataVars>>

\* scheduler.step left out in the epoch that sets stop_early
SchedulerStepUnlessStopping ==
    /\ pc = "scheduler"
    /\ scheduler' =
        IF train_state.stop_early THEN scheduler
        ELSE Append(scheduler, train_state.val_loss[Len(train_state.val_loss)])
    /\ pc' = "check_stop"
    /\ UNCHANGED <<args, num_batches, epoch_index, batch_index, running_loss,
                   train_state, params, model_file>>
    /\ UNCHANGED <<vocabVars, dataVars>>

\* scheduler.step(train_state['val_loss'][-1])
SchedulerStep ==
    /\ pc = "scheduler"
    /\ scheduler' =
        Append(scheduler, train_state.val_loss[Len(train_state.val_loss)])
    /\ pc' = "check_stop"
    /\ UNCHANGED <<args, num_batches, epoch_index, batch_index, running_loss,
                   train_state, params, model_file>>
    /\ UNCHANGED <<vocabVars, dataVars>>

\* if train_state['stop_early']: break
BreakEarly ==
    /\ pc = "check_stop"
    /\ train_state.stop_early
    /\ pc' = "stopped_early"
    /\ UNCHANGED <<args, num_batches, epoch_index, batch_index, running_loss,
                   train_state, params, model_file, scheduler>>
    /\ UNCHANGED <<vocabVars, dataVars>>

\* the end of the loop body: on to the next value of the range
NextEpoch ==
    /\ pc = "check_stop"
    /\ ~train_state.stop_early
    /\ epoch_index' = epoch_index + 1
    /\ pc' = "for"
    /\ UNCHANGED <<args, num_batches, batch_index, running_loss, train_state,
                   params, model_file, scheduler>>
    /\ UNCHANGED <<vocabVars, dataVars>>

\* the positions inside the try block
InLoop == {"for", "train", "val", "update", "scheduler", "check_stop"}

\* an except clause that saves the model before leaving
KeyboardInterruptSaving ==
    /\ pc \in InLoop
    /\ pc' = "interrupted"
    /\ model_file' = torch_save(params, train_state)
    /\ UNCHANGED <<args, num_batches, epoch_index, batch_index, running_loss,
                   train_state, params, scheduler>>
    /\ UNCHANGED <<vocabVars, dataVars>>

\* except KeyboardInterrupt: print("Exiting loop")
KeyboardInterrupt ==
    /\ pc \in InLoop
    /\ pc' = "interrupted"
    /\ UNCHANGED <<args, num_batches, epoch_index, batch_index, running_loss,
                   train_state, params, model_file, scheduler>>
    /\ UNCHANGED <<vocabVars, dataVars>>

NextTrain ==
    \/ EpochBegin
    \/ LoopExhausted
    \/ TrainBatch
    \/ TrainEnd
    \/ ValBatch
    \/ ValEnd
    \/ UpdateTrainState
    \/ SchedulerStep
    \/ BreakEarly
    \/ NextEpoch
    \/ KeyboardInterrupt

SpecTrain == InitTrain /\ [][NextTrain]_vars

\* the steps the interpreter takes by itself: every statement of the cell runs
\* on to the next one; only the interrupt is up to the user
LoopStep ==
    \/ EpochBegin
    \/ LoopExhausted
    \/ TrainBatch
    \/ TrainEnd
    \/ ValBatch
    \/ ValEnd
    \/ UpdateTrainState
    \/ SchedulerStep
    \/ BreakEarly
    \/ NextEpoch

\* the training cell, run on for as long as it has a statement to execute
SpecTrainLive == InitTrain /\ [][NextTrain]_vars /\ WF_vars(LoopStep)

-----------------------------------------------------------------------------
(* Inference: predict_topk_nationality and the cell that calls it           *)

\* the nationalities of the corpora inference is exercised on
InferNationalities == {"X", "Y", "Z"}

\* the rows of these corpora: the training rows, which make the vectorizer
InferRows == [surname : {<<"a", "b">>}, nationality : InferNationalities,
              split : {"train"}]

\* most rows of such a corpus
MaxInferRows == 3

\* largest k typed in
MaxK == 4

\* the surnames typed in: "ab" and "z"
InferNames == {<<"a", "b">>, <<"z">>}

\* the values of the softmax output, as their relative magnitudes
Probabilities == {1, 2}

\* the outputs of classifier(vectorized_name, apply_softmax=True): one value
\* for each of the output_dim = len(nationality_vocab) classes
PredictionVectors(vectorizer) ==
    [1..len(vectorizer.nationality_vocab) -> Probabilities]

\* an outcome of a query: the exception raised ("" for none) and the results
Answer(results) == [raised |-> "", value |-> results]
Failure(what) == [raised |-> what, value |-> << >>]

\* torch.topk(prediction_vector, k): RuntimeError when k is out of range,
\* otherwise the indices of k largest values by descending value, in any of
\* the orders that equal values allow
topk(prediction_vector, k) ==
    LET n == Len(prediction_vector)
    IN  IF k < 0 \/ k > n THEN {Failure("RuntimeError")}
        ELSE {Answer(indices) : indices \in
                {s \in [1..k -> 0..(n - 1)] :
                    /\ \A i, j \in 1..k : s[i] = s[j] => i = j
                    /\ \A i, j \in 1..k : i < j =>
                            prediction_vector[s[i] + 1]
                                >= prediction_vector[s[j] + 1]
                    /\ \A m \in 0..(n - 1) :
                            (\A i \in 1..k : s[i] # m) =>
                                \A i \in 1..k :
                                    prediction_vector[m + 1]
                                        <= prediction_vector[s[i] + 1]}}

\* the loop of predict_topk_nationality over zip(probability_values, indices)
topk_results(vectorizer, prediction_vector, indices) ==
    IF \E i \in 1..Len(indices) :
            lookup_index(vectorizer.nationality_vocab, indices[i]).raised
    THEN Failure("KeyError")
    ELSE Answer([i \in 1..Len(indices) |->
            [nationality |->
                lookup_index(vectorizer.nationality_vocab, indices[i]).value,
             probability |-> prediction_vector[indices[i] + 1]]])

\* predict_topk_nationality: the outcomes it can have for one output of the
\* classifier
predict_topk_nationality(name, prediction_vector, vectorizer, k) ==
    IF vectorize(vectorizer, name).raised
    THEN {Failure(vectorize(vectorizer, name).value)}
    ELSE {IF t.raised # "" THEN t
          ELSE topk_results(vectorizer, prediction_vector, t.value) :
            t \in topk(prediction_vector, k)}

\* the k handed on by the calling cell: if k > len(nationality_vocab) it is
\* set to len(nationality_vocab)
clamp(vectorizer, k) ==
    IF k > len(vectorizer.nationality_vocab)
    THEN len(vectorizer.nationality_vocab)
    ELSE k

InitInfer ==
    /\ surname_df \in SeqsUpTo(InferRows, MaxInferRows)
    /\ dataset = "none"
    /\ dstatus = "unloaded"
    /\ dop = "init"
    /\ darg = ""
    /\ dret = 0
    /\ passes = 0
    /\ IdleVocab
    /\ IdleTrain

\* the cell that reads a surname and k and prints the predictions
PredictTopk ==
    /\ dstatus = "ready"
    /\ \E name \in InferNames, k \in -1..MaxK :
        \E prediction_vector \in PredictionVectors(dataset.vectorizer) :
            \E r \in predict_topk_nationality(name, prediction_vector,
                        dataset.vectorizer, clamp(dataset.vectorizer, k)) :
                /\ dop' = "predict_topk"
                /\ darg' = [name |-> name, k |-> k]
                /\ dret' = r
    /\ UNCHANGED <<surname_df, dataset, dstatus, passes>>
    /\ UNCHANGED <<vocabVars, trainVars>>

NextInfer ==
    \/ LoadDatasetAndMakeVectorizer
    \/ LoadDatasetAndLoadVectorizer
    \/ PredictTopk

SpecInfer == InitInfer /\ [][NextInfer]_vars

-----------------------------------------------------------------------------
(* Claims about the Vocabulary                                              *)

RoundTrip(self) == from_serializable(to_serializable(self))

\* C3: from_serializable(to_serializable(v)) answers lookup_token as v does for
\* every token (known or not) and lookup_index as v does for every index v has
\* assigned.
C3_RoundTripPreservesLookups ==
    LET w == RoundTrip(vocab)
    IN  /\ \A t \in AllTokens : lookup_token(w, t) = lookup_token(vocab, t)
        /\ \A i \in Range(vocab.token_to_idx) :
                lookup_index(w, i) = lookup_index(vocab, i)

\* C4: the index->token map is the exact inverse of the token->index map, the
\* assigned indices are exactly 0..N-1 with no index shared by two tokens, and
\* len counts the registered tokens, the unknown symbol included when enabled.
C4_VocabularyInvariant ==
    /\ vocab.idx_to_token = IdxToTokenInverse(vocab.token_to_idx)
    /\ Range(vocab.token_to_idx) = 0..(len(vocab) - 1)
    /\ \A t, u \in DOMAIN vocab.token_to_idx :
            vocab.token_to_idx[t] = vocab.token_to_idx[u] => t = u
    /\ len(vocab) = Cardinality(DOMAIN vocab.idx_to_token)
    /\ vocab.add_unk => vocab.unk_token \in DOMAIN vocab.token_to_idx

\* C6: add_token(t) returns the existing index of a registered t and otherwise
\* the size of the forward map; adding t again returns the same index and
\* changes nothing, and lookup_token(t) afterwards is the index returned.
C6_AddTokenIdempotent ==
    [][op' = "add_token" =>
        /\ ret' = IF arg' \in DOMAIN vocab.token_to_idx
                  THEN vocab.token_to_idx[arg']
                  ELSE Cardinality(DOMAIN vocab.token_to_idx)
        /\ arg' \in DOMAIN vocab.token_to_idx => vocab' = vocab
        /\ add_token(vocab', arg') = [self |-> vocab', index |-> ret']
        /\ lookup_token(vocab', arg') = Returned(ret')]_vars

\* a repeated add_token returned the index of a token registered earlier
C6_Witness ==
    /\ op = "add_token"
    /\ ret < len(vocab) - 1
    /\ vocab.token_to_idx[arg] = ret

\* C7: lookup_token of an unregistered token returns the unknown token's index
\* when unknown-token support is enabled and raises KeyError when it is not;
\* lookup_index of an index never assigned raises KeyError; no lookup changes
\* the Vocabulary.
C7_LookupFailureSemantics ==
    [][/\ op' = "lookup_token" =>
            /\ vocab' = vocab
            /\ ret' = IF arg' \in DOMAIN vocab.token_to_idx
                      THEN Returned(vocab.token_to_idx[arg'])
                      ELSE IF vocab.add_unk
                           THEN Returned(vocab.token_to_idx[vocab.unk_token])
                           ELSE KeyErrorInt
       /\ op' = "lookup_index" =>
            /\ vocab' = vocab
            /\ arg' \notin Range(vocab.token_to_idx) => ret' = KeyErrorStr]_vars

\* a miss answered with the unknown token's index
C7_Witness ==
    /\ op = "lookup_token"
    /\ arg \notin DOMAIN vocab.token_to_idx
    /\ vocab.add_unk
    /\ ret = Returned(vocab.unk_index)
    /\ len(vocab) > 1

-----------------------------------------------------------------------------
(* Claims about the vectorizer and the dataset                              *)

\* C8: vectorize(surname) returns a vector as long as the character Vocabulary,
\* with 1 exactly at the positions lookup_token gives for the characters of
\* surname (the unknown token's position for an unseen character) and 0
\* elsewhere; so it depends only on the set of characters, the empty string
\* gives the all-zero vector, and it never raises or changes the Vocabulary.
C8_VectorizeMultiHot ==
    [][dop' = "vectorize" =>
        LET sv  == dataset.vectorizer.surname_vocab
            hot == {IF c \in DOMAIN sv.token_to_idx
                    THEN sv.token_to_idx[c]
                    ELSE sv.token_to_idx[sv.unk_token] : c \in Range(darg')}
        IN  /\ dataset' = dataset
            /\ ~dret'.raised
            /\ Len(dret'.value) = len(sv)
            /\ \A p \in 0..(len(sv) - 1) :
                    dret'.value[p + 1] = IF p \in hot THEN 1 ELSE 0
            /\ vectorize(dataset'.vectorizer, <<"a", "b">>)
                    = vectorize(dataset'.vectorizer, <<"b", "a">>)
            /\ vectorize(dataset'.vectorizer, <<"a", "a", "b">>)
                    = vectorize(dataset'.vectorizer, <<"a", "b">>)
            /\ vectorize(dataset'.vectorizer, << >>).value = Zeros(len(sv))
      ]_vars

\* "aab" vectorized over a Vocabulary that knows a and b: both positions set,
\* the unknown token's position clear
C8_Witness ==
    /\ dop = "vectorize"
    /\ darg = <<"a", "a", "b">>
    /\ {"a", "b"} \subseteq DOMAIN dataset.vectorizer.surname_vocab.token_to_idx
    /\ dret = Returned(<<0, 1, 1>>)

\* C9: once a dataset is constructed, class_weights is as long as the
\* nationality Vocabulary and class_weights[lookup_token(n)] = 1/count(n) for
\* every nationality n of the corpus, count(n) taken over all three splits.
C9_ClassWeights ==
    dstatus = "ready" =>
        LET nv == dataset.vectorizer.nationality_vocab
            cw == dataset.class_weights
        IN  /\ Len(cw) = len(nv)
            /\ \A i \in 1..Len(surname_df) :
                LET n == surname_df[i].nationality
                    r == lookup_token(nv, n)
                IN  /\ ~r.raised
                    /\ r.value + 1 \in 1..Len(cw)
                    /\ cw[r.value + 1]
                        = Reciprocal(Cardinality(RowsOf(surname_df, n)))

\* a corpus whose first nationality is the rarer one, the other one counted
\* across splits
C9_Witness ==
    /\ dstatus = "ready"
    /\ Len(surname_df) = 3
    /\ dataset.class_weights = <<Reciprocal(1), Reciprocal(2)>>
    /\ \E i \in 1..Len(surname_df) : surname_df[i].split # "train"

\* some row of df has a nationality that no training row of df has
UnseenNationality(df) ==
    \E i \in 1..Len(df) :
        \A j \in 1..Len(df) :
            df[j].split = "train" => df[j].nationality # df[i].nationality

\* C14: load_dataset_and_make_vectorizer on a corpus with a nationality that
\* no training row has raises during construction and leaves no dataset, and
\* nothing runs after the failure; a dataset that is constructed holds no
\* such nationality and answers dataset[i] for every row of every split
\* without raising.
C14_UnseenNationalityRejected ==
    /\ dstatus = "unloaded" => dop = "init"
    /\ dstatus = "failed" =>
            /\ UnseenNationality(surname_df)
            /\ dop = "load_dataset_and_make_vectorizer"
            /\ dret = "KeyError"
            /\ dataset = "none"
    /\ dstatus = "ready" =>
            /\ ~UnseenNationality(surname_df)
            /\ \A split \in Splits :
                \A i \in 0..(Len(FilterSplit(surname_df, split)) - 1) :
                    ~getitem(set_split(dataset, split).self, i).raised

\* construction has failed on a corpus that has training rows and a
\* validation row of a nationality none of them has
C14_Witness ==
    /\ dstatus = "failed"
    /\ dret = "KeyError"
    /\ \E i, j \in 1..Len(surname_df) :
        /\ surname_df[j].split = "train"
        /\ surname_df[i].split = "val"
        /\ \A k \in 1..Len(surname_df) :
                surname_df[k].split = "train" =>
                    surname_df[k].nationality # surname_df[i].nationality

-----------------------------------------------------------------------------
(* Claims about batching                                                    *)

\* the row indices a list of batches holds
Covered(batches) ==
    {batches[b][i] : <<b, i>> \in
        {<<c, j>> \in (DOMAIN batches) \X (1..MaxBatchSize + 1) :
            j <= Len(batches[c])}}

\* C10: in a pass over the active split every batch holds exactly batch_size
\* examples, no example occurs twice in the pass, and the batches hold all
\* examples of the split but (size mod batch_size) of them; a later pass
\* satisfies the same, whatever the earlier ones drew.
C10_BatchCoverage ==
    dop = "generate_batches" =>
        LET size    == dataset_len(dataset)
            bs      == darg.batch_size
            batches == dret.value
        IN  /\ \A b \in DOMAIN batches : Len(batches[b]) = bs
            /\ \A b, c \in DOMAIN batches : \A i \in 1..Len(batches[b]) :
                    \A j \in 1..Len(batches[c]) :
                        batches[b][i] = batches[c][j] => b = c /\ i = j
            /\ Covered(batches) \subseteq 0..(size - 1)
            /\ Cardinality((0..(size - 1)) \ Covered(batches)) = size % bs
            /\ size = Len(dataset.target_df)
            /\ \E split \in Splits :
                    dataset.target_df = FilterSplit(surname_df, split)

\* a second pass, shuffled, over three examples in batches of two: one batch
\* in an order that is not the stored one, one example dropped
C10_Witness ==
    /\ dop = "generate_batches"
    /\ passes = 2
    /\ dataset_len(dataset) = 3
    /\ darg = [batch_size |-> 2, shuffle |-> TRUE]
    /\ dret = Returned(<<<<2, 0>>>>)

\* C11: get_num_batches(batch_size) is floor(size of the active split /
\* batch_size) for every batch_size >= 1 (120 by 64 gives 1, 128 by 64 gives 2),
\* and it is the number of batches a generate_batches pass over the same
\* active split yields, in whatever order the sampler draws.
C11_BatchCount ==
    [][/\ dop' = "get_num_batches" =>
            LET size == Len(dataset.target_df)
                bs   == darg'
            IN  /\ dataset' = dataset
                /\ dret' * bs <= size
                /\ size < (dret' + 1) * bs
                /\ \A shuffle \in BOOLEAN :
                        \A order \in SamplerOrders(size, shuffle) :
                            Len(generate_batches(order, bs, TRUE)) = dret'
                /\ get_num_batches([target_size |-> 120], 64) = 1
                /\ get_num_batches([target_size |-> 128], 64) = 2
       /\ dop' = "generate_batches" =>
            Len(dret'.value) = get_num_batches(dataset', darg'.batch_size)
      ]_vars

\* three validation examples in batches of two: one batch counted, the
\* trailing example not
C11_Witness ==
    /\ dop = "get_num_batches"
    /\ darg = 2
    /\ dret = 1
    /\ dataset.target_split = "val"
    /\ Len(dataset.target_df) = 3

\* the item the dataset is to return for a row: the multi-hot vector of its
\* surname and the index of its nationality
ItemOf(vectorizer, row) ==
    Returned([x_surname |-> vectorize(vectorizer, row.surname).value,
              y_nationality |->
                vectorizer.nationality_vocab.token_to_idx[row.nationality]])

\* C13: set_split(name) with name one of train, val, test makes len and
\* dataset[i] answer for exactly the rows whose split is name, in their order,
\* until the next set_split; with any other name it raises, and len and
\* dataset[i] answer as they did before the call.
C13_SetSplit ==
    [][/\ dop' = "set_split" =>
            IF darg' \in Splits
            THEN LET view == FilterSplit(surname_df, darg')
                 IN  /\ dret' = "ok"
                     /\ dataset_len(dataset') = Len(view)
                     /\ \A i \in 0..MaxIndex :
                            getitem(dataset', i) =
                                IF i < Len(view)
                                THEN ItemOf(dataset.vectorizer, view[i + 1])
                                ELSE Raised("IndexError")
            ELSE /\ dret' = "KeyError"
                 /\ dataset_len(dataset') = dataset_len(dataset)
                 /\ \A i \in 0..MaxIndex :
                        getitem(dataset', i) = getitem(dataset, i)
       /\ dop' \in {"len", "getitem"} => dataset' = dataset
       /\ dop' = "len" => dret' = Len(dataset.target_df)
       /\ dop' = "getitem" /\ darg' < Len(dataset.target_df) =>
            dret' = ItemOf(dataset.vectorizer, dataset.target_df[darg' + 1])
      ]_vars

\* set_split("dev") has failed while the val split was active, and dataset[0]
\* is still the first val row, which is not the first train row
C13_Witness ==
    /\ dop = "set_split"
    /\ darg = "dev"
    /\ dret = "KeyError"
    /\ dataset_len(dataset) = 1
    /\ Len(FilterSplit(surname_df, "train")) = 2
    /\ Len(FilterSplit(surname_df, "val")) = 1
    /\ getitem(dataset, 0)
        = ItemOf(dataset.vectorizer, FilterSplit(surname_df, "val")[1])
    /\ getitem(dataset, 0)
        # ItemOf(dataset.vectorizer, FilterSplit(surname_df, "train")[1])

-----------------------------------------------------------------------------
(* Claims about inference                                                   *)

\* C12: a top-k query with k above the number of known nationalities returns
\* exactly len(nationality_vocab) results and no error; for every k >= 0 the
\* query returns min(k, len(nationality_vocab)) results by descending
\* probability, each label a token of the nationality Vocabulary.
C12_PredictTopk ==
    dop = "predict_topk" /\ darg.k >= 0 =>
        LET nv == dataset.vectorizer.nationality_vocab
        IN  /\ dret.raised = ""
            /\ Len(dret.value) = IF darg.k > len(nv) THEN len(nv) ELSE darg.k
            /\ \A i, j \in 1..Len(dret.value) : i < j =>
                    dret.value[i].probability >= dret.value[j].probability
            /\ \A i \in 1..Len(dret.value) :
                    dret.value[i].nationality \in DOMAIN nv.token_to_idx

-----------------------------------------------------------------------------
(* Claims about the training loop                                           *)

\* a history of ordinary losses, computed over at least one batch: numbers
\* below the initial best
Ordinary(h) ==
    /\ num_batches.train >= 1
    /\ num_batches.val >= 1
    /\ \A i \in 1..Len(h) : h[i] # NaN /\ h[i] < BestValInit

\* the best (smallest) of the first e losses of h
MinUpTo(h, e) ==
    CHOOSE m \in {h[i] : i \in 1..e} : \A i \in 1..e : m <= h[i]

RECURSIVE NonImproving(_, _)
\* the number of consecutive epochs, ending with the e-th of h, whose loss is
\* >= the best loss of the epochs before them
NonImproving(h, e) ==
    IF e <= 1 THEN 0
    ELSE IF h[e] >= MinUpTo(h, e - 1) THEN NonImproving(h, e - 1) + 1
    ELSE 0

\* C1: the epoch loop halts at the first epoch at which the number of
\* consecutive epochs with a validation loss >= the best seen so far reaches
\* the patience: no epoch runs after such an epoch, and the loop breaks early
\* only at one. Stated for the histories of ordinary losses.
C1_EarlyStopping ==
    LET h == train_state.val_loss
        p == args.early_stopping_criteria
    IN  Ordinary(h) =>
            /\ pc \in {"train", "val", "update"} =>
                    \A e \in 1..train_state.epoch_index : NonImproving(h, e) < p
            /\ pc = "stopped_early" => NonImproving(h, Len(h)) = p

\* the positions at which update_train_state has run for every recorded loss
Settled == {"scheduler", "check_stop", "for", "train", "val", "stopped_early",
            "completed"}

\* C2: the checkpoint is written at epoch 0 and afterwards exactly when the
\* epoch's validation loss is strictly below the best of the earlier epochs
\* (resetting the counter, which otherwise grows by one): so after every epoch
\* the file is that of the first epoch with the smallest loss so far and the
\* counter is the number of epochs since without improvement. Stated for the
\* histories of ordinary losses.
C2_CheckpointRule ==
    LET h == train_state.val_loss
    IN  Ordinary(h) /\ pc \in Settled /\ Len(h) >= 1 =>
            /\ model_file.exists
            /\ h[model_file.epoch + 1] = MinUpTo(h, Len(h))
            /\ \A e \in 1..model_file.epoch : h[e] > h[model_file.epoch + 1]
            /\ train_state.early_stopping_step = NonImproving(h, Len(h))

\* the positions after the try statement
Ended == {"stopped_early", "completed", "interrupted"}

\* the positions from which each position is entered
EnteredFrom(p) ==
    CASE p = "for"           -> {"check_stop"}
      [] p = "train"         -> {"for", "train"}
      [] p = "val"           -> {"train", "val"}
      [] p = "update"        -> {"val"}
      [] p = "scheduler"     -> {"update"}
      [] p = "check_stop"    -> {"scheduler"}
      [] p = "stopped_early" -> {"check_stop"}
      [] p = "completed"     -> {"for"}
      [] p = "interrupted"   -> InLoop
      [] OTHER               -> {}

\* C15: the training loop terminates, after at most num_epochs epochs, either
\* broken in the epoch whose update_train_state set stop_early or with the
\* range exhausted and stop_early false (or by the user's interrupt); every
\* epoch runs all training batches, then all validation batches, then
\* update_train_state, then one scheduler.step on that epoch's validation
\* loss, the epoch that stops early included.
C15_LoopTerminates ==
    /\ <>(pc \in Ended)
    /\ [][LET e == epoch_index
          IN  /\ pc \notin Ended
              /\ pc \in EnteredFrom(pc')
              /\ epoch_index' <= args.num_epochs
              /\ pc = "for" /\ pc' = "train" =>
                    /\ e < args.num_epochs
                    /\ Len(train_state.train_loss) = e
                    /\ Len(train_state.val_loss) = e
                    /\ Len(scheduler) = e
              /\ pc = "train" /\ pc' = "val" =>
                    /\ batch_index = num_batches.train
                    /\ Len(train_state'.train_loss) = e + 1
              /\ pc' = "update" =>
                    /\ batch_index = num_batches.val
                    /\ Len(train_state'.val_loss) = e + 1
              /\ pc' = "scheduler" =>
                    train_state' = update_train_state(args, params, train_state,
                                                      model_file).train_state
              /\ pc' = "check_stop" =>
                    /\ scheduler' = Append(scheduler, train_state.val_loss[e + 1])
                    /\ Len(scheduler') = e + 1
              /\ pc' # "check_stop" => scheduler' = scheduler
              /\ pc = "check_stop" /\ pc' # "interrupted" =>
                    /\ pc' = IF train_state.stop_early THEN "stopped_early"
                             ELSE "for"
                    /\ epoch_index' = IF train_state.stop_early THEN e ELSE e + 1
              /\ pc' = "completed" =>
                    /\ ~train_state.stop_early
                    /\ e = args.num_epochs
                    /\ Len(scheduler) = args.num_epochs
                    /\ Len(train_state.val_loss) = args.num_epochs
         ]_vars

\* the loop was broken in its third epoch with epochs to spare, the scheduler
\* stepped once for each of the three epochs
C15_Witness ==
    /\ pc = "stopped_early"
    /\ epoch_index = 2
    /\ args.num_epochs > 3
    /\ Len(scheduler) = 3
    /\ scheduler = train_state.val_loss

\* the four per-epoch histories of a train_state
Histories(ts) == <<ts.train_loss, ts.train_acc, ts.val_loss, ts.val_acc>>

\* new is old, or old with one entry appended
Extends(old, new) ==
    \/ new = old
    \/ Len(new) = Len(old) + 1 /\ SubSeq(new, 1, Len(old)) = old

\* the counter is within 0..patience and the flag says it is at the patience
CounterAndFlag(ts) ==
    /\ ts.early_stopping_step \in 0..args.early_stopping_criteria
    /\ ts.stop_early <=>
            ts.early_stopping_step = args.early_stopping_criteria

\* C16: the four histories only ever grow, by one entry at a time, and hold
\* one entry each per completed epoch; when update_train_state runs for epoch
\* e the validation-loss history has e+1 entries, the last one that epoch's
\* loss, so the unpacking of the last two entries never fails for e >= 1; the
\* counter stays within 0..early_stopping_criteria and stop_early is true
\* exactly when the counter is at early_stopping_criteria.
C16_TrainStateHistory ==
    [][/\ \A k \in 1..4 :
            Extends(Histories(train_state)[k], Histories(train_state')[k])
       /\ pc = "check_stop" /\ pc' \in {"for", "stopped_early"} =>
            \A k \in 1..4 : Len(Histories(train_state')[k]) = epoch_index + 1
       /\ pc = "update" =>
            /\ train_state.epoch_index = epoch_index
            /\ Len(train_state.val_loss) = epoch_index + 1
            /\ train_state.val_loss[epoch_index + 1] = running_loss
            /\ ~update_train_state(args, params, train_state,
                                   model_file).raised
            /\ pc' # "error"
       /\ CounterAndFlag(train_state)
       /\ CounterAndFlag(train_state')
      ]_vars

\* update_train_state has just run for the third epoch and set stop_early:
\* the counter is at a patience of two, three losses are recorded
C16_Witness ==
    /\ pc = "scheduler"
    /\ epoch_index = 2
    /\ args.early_stopping_criteria = 2
    /\ train_state.stop_early
    /\ train_state.early_stopping_step = 2
    /\ Len(train_state.val_loss) = 3

\* C5: an interrupt stops the loop for good and leaves the checkpoint as it
\* was, and the checkpoint always holds the parameters reached at the end of
\* the training phase of an epoch whose validation loss has been recorded.
C5_InterruptSafety ==
    [][/\ pc' = "interrupted" => model_file' = model_file
       /\ pc = "interrupted" => pc' = "interrupted"
       /\ model_file'.exists =>
            /\ model_file'.state_dict
                = (model_file'.epoch + 1) * num_batches.train
            /\ model_file'.epoch + 1 <= Len(train_state'.val_loss)
            /\ model_file'.epoch + 1 <= Len(train_state'.train_loss)]_vars

\* interrupted in the middle of the training phase of a later epoch: the
\* parameters have moved on, the checkpoint has not
C5_Witness ==
    /\ pc = "interrupted"
    /\ model_file.exists
    /\ batch_index = 1
    /\ num_batches.train = 2
    /\ params = model_file.state_dict + 1
    /\ Len(train_state.train_loss) = Len(train_state.val_loss)

=============================================================================
